---- MODULE Spec2Model ----
(***************************************************************************)
(* Monte Carlo tree search of gomoku-sampler: the game state (gomoku.h),   *)
(* the search node, compute_tree and compute_move (mcts.h).                *)
(*                                                                         *)
(* Conventions.  A Move is <<row, col>> with the 0-based coordinates of    *)
(* the code.  A tree is the sequence of its nodes in order of allocation;  *)
(* a Node* is an index into it and 0 is nullptr.  wins and the values of   *)
(* get_result are counted in half points (get_result 0.0, 0.5, 1.0 is 0,   *)
(* 1, 2), which keeps the double arithmetic of the code exact.             *)
(***************************************************************************)
EXTENDS Integers, Sequences, FiniteSets, TLC

(***************************************************************************)
(* Bounds of the model.                                                    *)
(***************************************************************************)
MaxIter == 3        \* largest max_iterations tried, and the iterations a call without max_iterations is followed for
MaxThreads == 2     \* largest number_of_threads tried
MaxTime == 1        \* largest max_time tried, and largest clock reading
MaxSeed == 1        \* seeds 0..MaxSeed
DeepIter == 21      \* max_iterations of the long searches
DeepSeed == 25      \* the seed of the long searches

(***************************************************************************)
(* GomokuState (gomoku.h)                                                  *)
(***************************************************************************)
no_move == <<-1, -1>>

\* A position of a 5 x 5 game after 21 legal moves (11 X, 10 O, no five in
\* a row), O to move, the last stone placed at (3, 3).  Markers: 0 '.', 1 'X', 2 'O'.
BaseBoard ==
    << <<0, 1, 1, 1, 1>>,
       <<2, 1, 2, 0, 1>>,
       <<2, 2, 0, 2, 2>>,
       <<1, 1, 2, 1, 1>>,
       <<1, 2, 2, 2, 0>> >>

num_rows == Len(BaseBoard)
num_cols == Len(BaseBoard[1])

\* empty_places is filled row by row by the constructor and only ever
\* loses elements, so it is the empty cells in row-major order.
RECURSIVE EmptyFrom(_, _)
EmptyFrom(board, k) ==
    IF k >= num_rows * num_cols THEN <<>>
    ELSE LET r == k \div num_cols
             c == k % num_cols
         IN (IF board[r + 1][c + 1] = 0 THEN << <<r, c>> >> ELSE <<>>)
            \o EmptyFrom(board, k + 1)

BaseState ==
    [ player_to_move |-> 2,
      board          |-> BaseBoard,
      last_row       |-> 3,
      last_col       |-> 3,
      empty_places   |-> EmptyFrom(BaseBoard, 0) ]

\* A position of a 5 x 5 game after 21 legal moves (11 X, 10 O, no five in
\* a row), O to move, the last stone placed at (0, 3); the cells left are
\* (1, 4), (2, 0), (2, 4) and (4, 2).
DeepBoard ==
    << <<1, 1, 1, 1, 2>>,
       <<1, 2, 2, 2, 0>>,
       <<0, 2, 2, 2, 0>>,
       <<1, 1, 2, 2, 2>>,
       <<1, 1, 0, 1, 1>> >>

DeepState ==
    [ player_to_move |-> 2,
      board          |-> DeepBoard,
      last_row       |-> 0,
      last_col       |-> 3,
      empty_places   |-> EmptyFrom(DeepBoard, 0) ]

\* std::remove + erase: every element equal to move goes, order is kept.
RemoveAll(s, move) == SelectSeq(s, LAMBDA x : x # move)

do_move(state, move) ==
    [ player_to_move |-> 3 - state.player_to_move,
      board          |-> [state.board EXCEPT ![move[1] + 1][move[2] + 1] = state.player_to_move],
      last_row       |-> move[1],
      last_col       |-> move[2],
      empty_places   |-> RemoveAll(state.empty_places, move) ]

\* The counting loops of get_winner: the stones equal to piece met from
\* (row, col) on in direction (drow, dcol) before the edge or another marker.
RECURSIVE CountRun(_, _, _, _, _, _)
CountRun(board, row, col, drow, dcol, piece) ==
    IF row >= 0 /\ row < num_rows /\ col >= 0 /\ col < num_cols
       /\ board[row + 1][col + 1] = piece
    THEN 1 + CountRun(board, row + drow, col + dcol, drow, dcol, piece)
    ELSE 0

FiveLen == 5

get_winner(state) ==
    IF state.last_col < 0 THEN 0
    ELSE LET b     == state.board
             r     == state.last_row
             c     == state.last_col
             piece == b[r + 1][c + 1]
             Line(drow, dcol) ==
                 CountRun(b, r - drow, c - dcol, -drow, -dcol, piece) + 1
                 + CountRun(b, r + drow, c + dcol, drow, dcol, piece)
         IN IF Line(0, 1) >= FiveLen THEN piece
            ELSE IF Line(1, 0) >= FiveLen THEN piece
            ELSE IF Line(1, 1) >= FiveLen THEN piece
            ELSE IF Line(-1, 1) >= FiveLen THEN piece
            ELSE 0

has_moves(state) ==
    IF get_winner(state) # 0 THEN FALSE ELSE state.empty_places # <<>>

get_moves(state) ==
    IF get_winner(state) # 0 THEN <<>> ELSE state.empty_places

\* get_result with a fault: the two decisive results are exchanged
get_result_Swapped(state, current_player_to_move) ==
    LET winner == get_winner(state)
    IN IF winner = 0 THEN 1
       ELSE IF winner = current_player_to_move THEN 2
       ELSE 0

\* In half points: 1 is the code's 0.5, 0 its 0.0, 2 its 1.0.
get_result(state, current_player_to_move) ==
    LET winner == get_winner(state)
    IN IF winner = 0 THEN 1
       ELSE IF winner = current_player_to_move THEN 0
       ELSE 2

(***************************************************************************)
(* The random engine.  std::mt19937_64 is a deterministic generator whose  *)
(* stream is fixed by its seed.  MtStream holds the first outputs of       *)
(* std::mt19937_64(seed) for the seeds of this module, each 64-bit output  *)
(* as four 16-bit limbs, most significant first (seed 0 starts with        *)
(* 2947667278772165694 = <<10472, 14277, 52033, 56382>>).  An engine is    *)
(* its seed and the number of outputs taken so far.                        *)
(***************************************************************************)
MtStream ==
    0 :> <<
           <<10472, 14277, 52033, 56382>>, <<65021, 14972, 15936, 63883>>, <<2593, 12823, 61490, 59577>>,
           <<39157, 26883, 52963, 64750>>, <<35539, 12307, 15111, 9644>>, <<3746, 1578, 64863, 59886>>,
           <<41387, 55283, 1066, 57647>>, <<27759, 7749, 17794, 18152>>, <<55198, 25239, 28512, 17254>>,
           <<59395, 24119, 9695, 18969>>, <<27731, 28716, 1293, 13587>>, <<42960, 35525, 35420, 63224>>,
           <<60976, 48005, 7495, 34446>>, <<22569, 42726, 5711, 62214>>, <<16686, 29638, 53955, 25656>>,
           <<29141, 62424, 54959, 12865>>, <<51785, 55844, 54454, 35059>>, <<45575, 4703, 26270, 63305>>,
           <<36548, 9917, 43598, 51317>>, <<18837, 2720, 23167, 24220>>, <<9556, 12320, 61, 36623>>,
           <<37962, 42540, 26102, 43249>>, <<36998, 21262, 24065, 41314>>, <<9595, 43115, 50724, 3530>>
        >> @@
    1 :> <<
           <<8773, 48479, 47976, 28520>>, <<8939, 37456, 8984, 64078>>, <<29570, 53735, 31462, 17818>>,
           <<1377, 55301, 31029, 49294>>, <<22996, 30066, 60668, 26424>>, <<59726, 49874, 47507, 26697>>,
           <<30851, 13877, 37211, 53684>>, <<4877, 34041, 7153, 19209>>, <<37345, 32947, 25844, 24832>>,
           <<41630, 33628, 3652, 32784>>, <<5862, 26509, 14846, 61184>>, <<36449, 48518, 29878, 13083>>,
           <<51750, 41384, 16537, 7781>>, <<14524, 64517, 32372, 23139>>, <<27437, 56409, 30221, 988>>,
           <<16369, 29228, 22122, 20889>>, <<19127, 42099, 53907, 30401>>, <<52640, 58694, 43767, 2234>>,
           <<31102, 64202, 19901, 38883>>, <<17690, 49502, 17263, 52200>>, <<18746, 2386, 15098, 28623>>,
           <<49085, 56351, 37317, 48999>>, <<30023, 42636, 64976, 16708>>, <<20066, 16387, 3820, 49499>>
        >> @@
    2 :> <<
           <<59218, 38893, 2433, 35404>>, <<55721, 4957, 23291, 12121>>, <<51368, 30016, 54901, 12837>>,
           <<60641, 38107, 27868, 11827>>, <<16574, 19302, 43754, 32156>>, <<8905, 27092, 24910, 58333>>,
           <<14715, 32535, 21094, 62553>>, <<6530, 44850, 62698, 7907>>, <<1447, 35523, 15179, 45534>>,
           <<44947, 26103, 22992, 50374>>, <<42866, 7388, 48185, 20262>>, <<63464, 48891, 46845, 25603>>,
           <<52647, 8317, 52820, 61936>>, <<8701, 49909, 14134, 27524>>, <<13157, 56911, 2560, 44416>>,
           <<4431, 54399, 3, 42320>>, <<65423, 17476, 2999, 46190>>, <<37091, 36116, 53079, 58611>>,
           <<23362, 28882, 19303, 56517>>, <<25151, 2619, 9498, 21947>>, <<3754, 57483, 55518, 37289>>,
           <<4628, 26259, 32828, 13665>>, <<30440, 65323, 55184, 47430>>, <<28641, 57278, 61174, 25941>>
        >> @@
    3 :> <<
           <<36619, 18867, 35954, 64427>>, <<12829, 37580, 28924, 39399>>, <<38682, 3406, 6901, 21971>>,
           <<22699, 41473, 27233, 48789>>, <<36686, 50255, 26184, 46981>>, <<23678, 21828, 2611, 15716>>,
           <<48316, 1845, 10713, 53335>>, <<27699, 17260, 13373, 65256>>, <<46184, 56041, 18051, 25162>>,
           <<10887, 56623, 62233, 60419>>, <<7378, 2938, 23070, 56254>>, <<38751, 12381, 17805, 14658>>,
           <<37232, 23477, 11081, 48720>>, <<59839, 13150, 53766, 10990>>, <<17109, 43393, 59875, 64496>>,
           <<1339, 21707, 14461, 5719>>, <<18649, 16240, 33124, 56209>>, <<51936, 62954, 44829, 37572>>,
           <<64118, 34290, 58615, 13241>>, <<32345, 59517, 25515, 6114>>, <<24945, 61047, 51750, 43557>>,
           <<14054, 44967, 47880, 46867>>, <<2079, 50353, 56388, 63558>>, <<5085, 28975, 12057, 32458>>
        >> @@
    25 :> <<
           <<48031, 2617, 37611, 46344>>, <<65134, 35, 64929, 54666>>, <<4595, 42166, 26637, 15501>>,
           <<7524, 14174, 6000, 3915>>, <<33945, 29844, 91, 14251>>, <<49174, 60979, 4418, 50898>>,
           <<385, 3406, 30300, 35732>>, <<54727, 17351, 62045, 48566>>, <<19701, 4662, 44542, 45270>>,
           <<42257, 53200, 33719, 11893>>, <<25692, 31415, 48194, 63034>>, <<39519, 9979, 6542, 11397>>,
           <<17648, 11090, 41925, 65271>>, <<36069, 775, 10511, 13078>>, <<3670, 39420, 51989, 59439>>,
           <<18188, 64729, 24591, 42222>>, <<42754, 38034, 50296, 473>>, <<45285, 19850, 9340, 65034>>,
           <<4181, 2609, 32695, 10281>>, <<25425, 62585, 40265, 42875>>, <<15720, 36097, 25415, 1340>>,
           <<35526, 40829, 9463, 20586>>, <<17102, 18298, 44135, 20448>>, <<63455, 24435, 5543, 18999>>,
           <<38039, 21686, 51107, 61725>>, <<58362, 51203, 13940, 39585>>, <<55748, 63432, 38167, 61533>>,
           <<21371, 60883, 11807, 53645>>, <<22191, 60319, 26012, 11344>>, <<24755, 54642, 43794, 62764>>,
           <<7818, 49543, 36301, 24715>>, <<1334, 3060, 47598, 12343>>, <<24568, 19305, 6661, 52186>>,
           <<35828, 29066, 29010, 43408>>, <<47151, 30603, 55235, 33667>>, <<44686, 41071, 26873, 50395>>,
           <<50750, 45130, 49186, 22668>>, <<6904, 57702, 1905, 65235>>, <<4144, 42360, 27986, 37718>>,
           <<30268, 59149, 63664, 45613>>, <<43993, 63830, 15858, 36724>>, <<55411, 46853, 13415, 9045>>,
           <<25306, 16964, 8289, 61609>>, <<21992, 49789, 20695, 61118>>, <<60551, 6797, 27306, 45505>>,
           <<9676, 40736, 28882, 33783>>, <<41742, 51035, 48073, 58157>>, <<10074, 13905, 36417, 47646>>,
           <<20877, 23749, 61399, 60044>>, <<40823, 29142, 23059, 64718>>, <<31469, 3342, 31644, 49654>>,
           <<32378, 13381, 7305, 63889>>, <<24647, 32900, 40543, 41253>>, <<57045, 951, 53895, 10051>>,
           <<7429, 41658, 21059, 28705>>, <<33937, 65131, 21179, 52643>>, <<15314, 39810, 42163, 7556>>,
           <<54951, 47857, 23376, 10337>>, <<51525, 30094, 22906, 43576>>, <<44452, 48655, 23859, 46321>>,
           <<35070, 56416, 9549, 43520>>, <<24864, 49771, 57179, 7957>>, <<1796, 49467, 35416, 2018>>,
           <<29893, 27790, 12103, 50305>>, <<47246, 29237, 19940, 24519>>, <<11806, 42987, 25755, 43058>>,
           <<61710, 54013, 54669, 58242>>, <<54933, 13199, 35942, 22148>>, <<19014, 36744, 58761, 1186>>,
           <<31534, 43143, 9119, 55953>>, <<37219, 22276, 30955, 34249>>, <<52894, 5838, 26043, 14980>>,
           <<3177, 12869, 35583, 31204>>, <<29415, 18214, 28583, 23969>>, <<44265, 51838, 23116, 182>>,
           <<14568, 62017, 8583, 21581>>, <<27676, 52498, 8024, 59148>>, <<15104, 36164, 1137, 37049>>,
           <<37012, 31604, 9822, 5123>>, <<10079, 49687, 15020, 55021>>, <<39826, 19353, 48397, 21045>>,
           <<9467, 52669, 61613, 45148>>, <<11156, 38392, 38030, 61290>>, <<1515, 48797, 4286, 65477>>,
           <<34171, 41684, 43441, 29523>>, <<38499, 53034, 65283, 55072>>, <<62855, 63544, 9551, 6167>>,
           <<56518, 8171, 33888, 24431>>, <<28800, 59015, 39628, 20972>>, <<23788, 14995, 19265, 41848>>,
           <<38645, 28772, 64204, 61188>>, <<53049, 54774, 12128, 11468>>, <<11476, 50259, 19354, 37820>>,
           <<13316, 23580, 16762, 43224>>, <<37098, 38019, 26122, 62746>>, <<59501, 7249, 45021, 3741>>
        >> @@
    26 :> <<
           <<41809, 17457, 57499, 1474>>, <<32066, 10557, 25129, 19910>>, <<59619, 65271, 25819, 32766>>,
           <<5701, 28052, 9604, 38565>>, <<23051, 30219, 59958, 50935>>, <<34373, 32902, 21789, 25552>>,
           <<40696, 31437, 25874, 15900>>, <<47536, 28772, 15136, 9153>>, <<20973, 26437, 14449, 16773>>,
           <<8238, 63319, 11038, 25944>>, <<2844, 26372, 29746, 64138>>, <<45282, 18953, 62073, 47651>>,
           <<22335, 50292, 49647, 57719>>, <<57218, 16477, 48033, 35116>>, <<16601, 12110, 36468, 16066>>,
           <<14059, 41601, 7288, 36556>>, <<27602, 50728, 47350, 6343>>, <<27930, 23239, 21334, 52908>>,
           <<3193, 16527, 65223, 17092>>, <<48510, 40924, 29261, 53387>>, <<8558, 28512, 28549, 21721>>,
           <<4760, 14267, 10464, 38336>>, <<10102, 33725, 50167, 3486>>, <<62589, 33286, 4948, 12389>>,
           <<41139, 28898, 60793, 32004>>, <<41730, 36638, 44834, 39192>>, <<2200, 33332, 58473, 46687>>,
           <<12439, 11404, 51700, 19376>>, <<2203, 13397, 55918, 41864>>, <<5256, 23800, 41869, 7918>>,
           <<16231, 25736, 1493, 58526>>, <<55797, 37145, 12773, 15510>>, <<5109, 45161, 41216, 41227>>,
           <<49168, 55515, 4859, 243>>, <<42053, 33239, 16661, 36442>>, <<36924, 35372, 7054, 25516>>,
           <<38137, 38474, 45129, 44396>>, <<13277, 14004, 45117, 35950>>, <<56691, 64834, 41564, 62692>>,
           <<20622, 35803, 14267, 16234>>, <<33107, 11972, 45844, 39471>>, <<37667, 47110, 9660, 55109>>,
           <<41614, 41023, 21004, 54769>>, <<48889, 47893, 12334, 61749>>, <<32405, 52546, 28763, 42775>>,
           <<48248, 16426, 60912, 59403>>, <<17677, 9723, 34832, 58749>>, <<4743, 5158, 49147, 37942>>,
           <<19455, 54228, 8619, 40681>>, <<41033, 60246, 27831, 18528>>, <<46013, 19675, 1948, 19535>>,
           <<6913, 39680, 58224, 27012>>, <<61032, 21483, 32537, 19344>>, <<47725, 41748, 20734, 19981>>,
           <<25597, 60747, 21143, 381>>, <<21814, 51574, 30736, 1770>>, <<2192, 5290, 27260, 50413>>,
           <<9693, 57586, 33990, 55604>>, <<58516, 7128, 15855, 33281>>, <<60366, 44679, 13324, 19158>>,
           <<7039, 43516, 25178, 12659>>, <<64320, 18402, 42256, 33358>>, <<22744, 27662, 29754, 57727>>,
           <<793, 44268, 14929, 55246>>, <<10278, 659, 8786, 42385>>, <<5587, 11685, 20883, 30574>>,
           <<46153, 20187, 28915, 44079>>, <<17598, 27201, 21016, 29604>>, <<26016, 15993, 21263, 38978>>,
           <<2376, 54149, 56031, 10392>>, <<12480, 36290, 23572, 47853>>, <<42955, 56689, 18490, 62863>>,
           <<33627, 11906, 53429, 56351>>, <<34079, 8682, 43597, 37484>>, <<33905, 46305, 61127, 58557>>,
           <<57287, 14676, 55165, 54658>>, <<54077, 46350, 50670, 34756>>, <<26910, 22681, 36835, 16865>>,
           <<8625, 49138, 4790, 40190>>, <<12992, 15095, 47651, 52280>>, <<36704, 2458, 10612, 60176>>,
           <<7832, 6858, 54368, 63222>>, <<20294, 32399, 7556, 27075>>, <<59881, 44970, 27475, 12167>>,
           <<8986, 42964, 5046, 31426>>, <<37861, 46665, 2763, 18049>>, <<52919, 8125, 41155, 25755>>,
           <<59058, 32214, 10980, 21314>>, <<166, 65079, 32001, 55623>>, <<48470, 19881, 859, 12222>>,
           <<61169, 21446, 30257, 43044>>, <<63587, 5018, 60812, 10825>>, <<28011, 34684, 38224, 33627>>,
           <<15815, 56768, 15111, 59038>>, <<44906, 50024, 634, 17042>>, <<23884, 12985, 3670, 34184>>
        >>

SeedEngine(initial_seed) == [seed |-> initial_seed, drawn |-> 0]

\* random_engine(): the engine after one output
EngineStep(engine) == [engine EXCEPT !.drawn = @ + 1]

\* the output that the next random_engine() returns
EngineOutput(engine) == MtStream[engine.seed][engine.drawn + 1]

\* libstdc++'s uniform_int_distribution over 0..n-1 on a 64-bit engine
\* multiplies one output x by n as a 128-bit product: the value is the
\* high 64 bits, floor(x * n / 2^64), and the output is drawn again when
\* the low 64 bits are below 2^64 mod n.
MulHigh(x, n) ==
    LET c0 == (x[4] * n) \div 65536
        c1 == (x[3] * n + c0) \div 65536
        c2 == (x[2] * n + c1) \div 65536
    IN (x[1] * n + c2) \div 65536

MulLowBelow(x, n, bound) ==
    LET p0 == x[4] * n
        p1 == x[3] * n + (p0 \div 65536)
        p2 == x[2] * n + (p1 \div 65536)
        p3 == x[1] * n + (p2 \div 65536)
    IN /\ p0 % 65536 < bound
       /\ p1 % 65536 = 0
       /\ p2 % 65536 = 0
       /\ p3 % 65536 = 0

Rejected(x, n) ==
    LET r == 65536 % n
    IN MulLowBelow(x, n, (r * r * r * r) % n)

RECURSIVE SkipRejected(_, _)
SkipRejected(engine, n) ==
    IF Rejected(EngineOutput(engine), n)
    THEN SkipRejected(EngineStep(engine), n)
    ELSE engine

\* distribution(0, n - 1)(random_engine): the value and the engine after it
UniformInt(engine, n) == MulHigh(EngineOutput(SkipRejected(engine, n)), n)

AfterDraw(engine, n) == EngineStep(SkipRejected(engine, n))

do_random_move(state, engine) ==
    LET idx == UniformInt(engine, Len(state.empty_places))
    IN do_move(state, state.empty_places[idx + 1])

\* The cells of the board and the elements of a sequence
Cells == (0..(num_rows - 1)) \X (0..(num_cols - 1))

Range(s) == { s[i] : i \in DOMAIN s }

(***************************************************************************)
(* Node (mcts.h)                                                           *)
(***************************************************************************)
\* Both constructors: statistics at zero, the frontier is the legal moves
\* of the state, player_to_move is the player to move in the state.
NewNode(state, move, parent) ==
    [ move           |-> move,
      parent         |-> parent,
      player_to_move |-> state.player_to_move,
      wins           |-> 0,
      visits         |-> 0,
      moves          |-> get_moves(state),
      children       |-> <<>> ]

has_untried_moves(node) == node.moves # <<>>

has_children(node) == node.children # <<>>

get_untried_move(node, engine) == node.moves[UniformInt(engine, Len(node.moves)) + 1]

\* std::sqrt(2.0 * std::log(double(N)) / v) in millionths, rounded to
\* nearest: row N (the parent's visits), column v (the child's visits,
\* never more than the parent's), for N up to 28.
ExploreMicro ==
    << <<0>>,
       <<1177410, 832555>>,
       <<1482304, 1048147, 855809>>,
       <<1665109, 1177410, 961351, 832555>>,
       <<1794123, 1268636, 1035837, 897061, 802356>>,
       <<1893018, 1338566, 1092935, 946509, 846584, 772822>>,
       <<1972770, 1394959, 1138979, 986385, 882249, 805380, 745637>>,
       <<2039334, 1442027, 1177410, 1019667, 912018, 832555, 770796, 721013>>,
       <<2096294, 1482304, 1210296, 1048147, 937491, 855809, 792325, 741152,
          698765>>,
       <<2145966, 1517427, 1238974, 1072983, 959705, 876087, 811099, 758714,
          715322, 678614>>,
       <<2189929, 1548514, 1264356, 1094965, 979366, 894035, 827715, 774257,
          729976, 692516, 660289>>,
       <<2229308, 1576359, 1287091, 1114654, 996977, 910111, 842599, 788179,
          743103, 704969, 672162, 643546>>,
       <<2264928, 1601546, 1307657, 1132464, 1012907, 924653, 856062, 800773,
          754976, 716233, 682901, 653828, 628178>>,
       <<2297415, 1624518, 1326413, 1148707, 1027435, 937916, 868341, 812259,
          765805, 726506, 692697, 663207, 637188, 614010>>,
       <<2327252, 1645615, 1343639, 1163626, 1040779, 950097, 879618, 822808,
          775751, 735942, 701693, 671820, 645463, 621984, 600894>>,
       <<2354820, 1665109, 1359556, 1177410, 1053108, 961351, 890038, 832555,
          784940, 744659, 710005, 679778, 653110, 629352, 608012, 588705>>,
       <<2380426, 1683215, 1374339, 1190213, 1064559, 971805, 899716, 841608,
          793475, 752757, 717725, 687170, 660211, 636196, 614623, 595106,
          577338>>,
       <<2404318, 1700109, 1388133, 1202159, 1075244, 981559, 908747, 850055,
          801439, 760312, 724929, 694067, 666838, 642581, 620792, 601079,
          583133, 566703>>,
       <<2426701, 1715937, 1401057, 1213351, 1085254, 990697, 917207, 857968,
          808900, 767390, 731678, 700528, 673046, 648563, 626572, 606675,
          588561, 571979, 556723>>,
       <<2447747, 1730818, 1413207, 1223873, 1094666, 999288, 925161, 865409,
          815916, 774046, 738023, 706604, 678883, 654188, 632006, 611937,
          593666, 576939, 561552, 547333>>,
       <<2467599, 1744856, 1424669, 1233800, 1103544, 1007393, 932665, 872428,
          822533, 780323, 744009, 712334, 684389, 659494, 637131, 616900,
          598481, 581619, 566106, 551772, 538474>>,
       <<2486380, 1758136, 1435512, 1243190, 1111943, 1015060, 939763, 879068,
          828793, 786262, 749672, 717756, 689598, 664513, 641981, 621595,
          603036, 586045, 570415, 555971, 542573, 530098>>,
       <<2504194, 1770733, 1445797, 1252097, 1119910, 1022333, 946496, 885366,
          834731, 791896, 755043, 722899, 694538, 669274, 646580, 626049,
          607356, 590244, 574502, 559955, 546460, 533896, 522161>>,
       <<2521132, 1782710, 1455576, 1260566, 1127485, 1029248, 952898, 891355,
          840377, 797252, 760150, 727788, 699236, 673801, 650954, 630283,
          611464, 594237, 578387, 563742, 550156, 537507, 525692, 514624>>,
       <<2537272, 1794123, 1464895, 1268636, 1134703, 1035837, 958999, 897061,
          845757, 802356, 765016, 732447, 703713, 678115, 655121, 634318,
          615379, 598041, 582090, 567351, 553678, 540948, 529058, 517919,
          507454>>,
       <<2552684, 1805020, 1473793, 1276342, 1141595, 1042129, 964824, 902510,
          850895, 807229, 769663, 736896, 707987, 682233, 659100, 638171,
          619117, 601673, 585626, 570797, 557041, 544234, 532271, 521064,
          510537, 500622>>,
       <<2567426, 1815444, 1482304, 1283713, 1148188, 1048147, 970396, 907722,
          855809, 811891, 774108, 741152, 712076, 686173, 662906, 641856,
          622692, 605148, 589008, 574094, 560258, 547377, 535345, 524074,
          513485, 503514, 494101>>,
       <<2581552, 1825433, 1490460, 1290776, 1154505, 1053914, 975735, 912716,
          860517, 816358, 778367, 745230, 715994, 689949, 666554, 645388,
          626118, 608478, 592249, 577253, 563341, 550389, 538291, 526957,
          516310, 506284, 496820, 487867>> >>

\* a->UCT_score < b->UCT_score for two children a, b of a node with
\* parent_visits visits.  UCT_score = wins / visits + sqrt(2 ln N / visits);
\* with wins in half points and the square root in millionths the
\* comparison is multiplied through by 2 * a.visits * b.visits * 10^6.
UCT_less(a, b, parent_visits) ==
    1000000 * a.wins * b.visits + 2 * a.visits * b.visits * ExploreMicro[parent_visits][a.visits]
    < 1000000 * b.wins * a.visits + 2 * a.visits * b.visits * ExploreMicro[parent_visits][b.visits]

\* MaxElementUCT with a fault: a later child of equal score replaces best
RECURSIVE MaxElementUCT_LastMax(_, _, _, _)
MaxElementUCT_LastMax(tree, n, from, best) ==
    IF from > Len(tree[n].children) THEN best
    ELSE LET c == tree[n].children[from]
         IN MaxElementUCT_LastMax(tree, n, from + 1,
                IF UCT_less(tree[c], tree[best], tree[n].visits) THEN best ELSE c)

\* std::max_element over children[from..]: the first child that no later
\* child beats; best is the largest so far.
RECURSIVE MaxElementUCT(_, _, _, _)
MaxElementUCT(tree, n, from, best) ==
    IF from > Len(tree[n].children) THEN best
    ELSE LET c == tree[n].children[from]
         IN MaxElementUCT(tree, n, from + 1,
                IF UCT_less(tree[best], tree[c], tree[n].visits) THEN c ELSE best)

select_child_UCT(tree, n) == MaxElementUCT(tree, n, 2, tree[n].children[1])

RECURSIVE MaxElementVisits(_, _, _, _)
MaxElementVisits(tree, n, from, best) ==
    IF from > Len(tree[n].children) THEN best
    ELSE LET c == tree[n].children[from]
         IN MaxElementVisits(tree, n, from + 1,
                IF tree[best].visits < tree[c].visits THEN c ELSE best)

best_child(tree, n) == MaxElementVisits(tree, n, 2, tree[n].children[1])

\* The first occurrence of move leaves the sequence.
RECURSIVE EraseFirst(_, _)
EraseFirst(s, move) ==
    IF s = <<>> THEN <<>>
    ELSE IF Head(s) = move THEN Tail(s)
    ELSE <<Head(s)>> \o EraseFirst(Tail(s), move)

\* add_child with a fault: the move stays in the frontier
add_child_KeepsMove(tree, n, move, state) ==
    LET node == Len(tree) + 1
    IN Append([tree EXCEPT ![n].children = Append(@, node)],
              NewNode(state, move, n))

\* add_child on node n: the new node is allocated at the end of the tree,
\* pushed on n's children, and move leaves n's frontier.
add_child(tree, n, move, state) ==
    LET node == Len(tree) + 1
    IN Append([tree EXCEPT ![n].children = Append(@, node),
                           ![n].moves    = EraseFirst(@, move)],
              NewNode(state, move, n))

\* update with a fault: the result is dropped
update_VisitsOnly(node, result) ==
    [node EXCEPT !.visits = @ + 1]

update(node, result) ==
    [node EXCEPT !.visits = @ + 1, !.wins = @ + result]

(***************************************************************************)
(* compute_tree (mcts.h): one iteration of the loop body                   *)
(***************************************************************************)
\* while (!node->has_untried_moves() && node->has_children()): the node
\* and the working state the descent ends at.
RECURSIVE SelectLeaf(_, _, _)
SelectLeaf(tree, n, state) ==
    IF ~has_untried_moves(tree[n]) /\ has_children(tree[n])
    THEN LET c == select_child_UCT(tree, n)
         IN SelectLeaf(tree, c, do_move(state, tree[c].move))
    ELSE [node |-> n, state |-> state]

\* if (node->has_untried_moves()): one draw of the engine, the move is
\* played on the working state and becomes a new child, which is the node.
Expand(tree, sel, engine) ==
    IF has_untried_moves(tree[sel.node])
    THEN LET move  == get_untried_move(tree[sel.node], engine)
             state == do_move(sel.state, move)
         IN [ tree   |-> add_child(tree, sel.node, move, state),
              node   |-> Len(tree) + 1,
              state  |-> state,
              engine |-> AfterDraw(engine, Len(tree[sel.node].moves)) ]
    ELSE [ tree |-> tree, node |-> sel.node, state |-> sel.state, engine |-> engine ]

\* while (state.has_moves()) state.do_random_move(&random_engine)
RECURSIVE Playout(_, _)
Playout(state, engine) ==
    IF has_moves(state)
    THEN Playout(do_random_move(state, engine),
                 AfterDraw(engine, Len(state.empty_places)))
    ELSE [state |-> state, engine |-> engine]

\* Backpropagate with a fault: a node that was just added is passed over
RECURSIVE Backpropagate_SkipsFresh(_, _, _)
Backpropagate_SkipsFresh(tree, n, state) ==
    IF n = 0 THEN tree
    ELSE Backpropagate_SkipsFresh(
             IF tree[n].visits = 0 /\ tree[n].parent # 0 THEN tree
             ELSE [tree EXCEPT ![n] = update(@, get_result(state, @.player_to_move))],
             tree[n].parent, state)

\* Backpropagate with a fault: while (node->parent != nullptr), the root is left out
RECURSIVE Backpropagate_BelowRoot(_, _, _)
Backpropagate_BelowRoot(tree, n, state) ==
    IF tree[n].parent = 0 THEN tree
    ELSE Backpropagate_BelowRoot(
             [tree EXCEPT ![n] = update(@, get_result(state, @.player_to_move))],
             tree[n].parent, state)

\* while (node != nullptr) { node->update(...); node = node->parent; }
RECURSIVE Backpropagate(_, _, _)
Backpropagate(tree, n, state) ==
    IF n = 0 THEN tree
    ELSE Backpropagate([tree EXCEPT ![n] = update(@, get_result(state, @.player_to_move))],
                       tree[n].parent, state)

\* The loop body up to the clock: the tree, the engine, the node that the
\* backpropagation started at and the final state of the playout.
Iteration(tree, engine, root_state) ==
    LET sel == SelectLeaf(tree, 1, root_state)
        exp == Expand(tree, sel, engine)
        end == Playout(exp.state, exp.engine)
    IN [ tree   |-> Backpropagate(exp.tree, exp.node, end.state),
         engine |-> end.engine,
         node   |-> exp.node,
         state  |-> end.state ]

(***************************************************************************)
(* State                                                                   *)
(***************************************************************************)
VARIABLES
    entry,          \* what the caller invokes: "compute_move", "compute_tree" or "add_child"
    root_state,     \* the GomokuState passed in
    options,        \* the ComputeOptions passed in
    use_openmp,     \* the build: TRUE when USE_OPENMP is defined
    seed,           \* the seed compute_move draws from std::random_device
    own_tree,       \* the nodes of a caller that uses Node itself, <<>> otherwise
    pc,             \* where the caller is
    jobs,           \* the compute_tree calls made so far, in order
    collected,      \* compute_move: the futures already taken by get()
    visits,         \* compute_move: std::map<Move, int> visits
    wins,           \* compute_move: std::map<Move, double> wins, in half points
    games_played,   \* compute_move: long long games_played
    best_move       \* the Move compute_move returned

vars == << entry, root_state, options, use_openmp, seed, own_tree, pc, jobs, collected,
           visits, wins, games_played, best_move >>

\* The positions tried: BaseState followed by these moves, each played
\* while the game was still on.
RootPrefixes ==
    { << <<4, 4>> >>,                                   \* X to move, 3 moves, (0, 0) wins
      << <<0, 0>> >>,                                   \* X to move, 3 moves, (0, 0) taken
      << <<0, 0>>, <<2, 2>> >>,                         \* O to move, 2 moves, both draw
      << <<0, 0>>, <<1, 3>> >>,                         \* O to move, 2 moves, (2, 2) wins
      << <<4, 4>>, <<2, 2>> >>,                         \* O to move, 2 moves, X wins after either
      << <<0, 0>>, <<2, 2>>, <<1, 3>> >>,               \* X to move, 1 move
      << <<0, 0>>, <<2, 2>>, <<1, 3>>, <<4, 4>> >>,     \* board full, draw
      << <<2, 2>> >> }                                  \* O has won, 3 cells empty

RECURSIVE PlayAll(_, _)
PlayAll(state, ms) ==
    IF ms = <<>> THEN state ELSE PlayAll(do_move(state, Head(ms)), Tail(ms))

Roots == { PlayAll(BaseState, ms) : ms \in RootPrefixes }

\* max_time >= 0 in a build without OpenMP throws before the root exists.
ThrowsNoClock(max_time) == max_time >= 0 /\ ~use_openmp

\* LoopCondition with a fault: < in place of <=
LoopCondition_Strict(iter, max_iterations) == iter < max_iterations \/ max_iterations < 0

\* iter <= options.max_iterations || options.max_iterations < 0
LoopCondition(iter, max_iterations) == iter <= max_iterations \/ max_iterations < 0

\* NewJob with a fault: every call gets a seed of its own
NewJob_OwnSeed(verbose) ==
    [ status   |-> IF ThrowsNoClock(options.max_time) THEN "thrown"
                   ELSE IF LoopCondition(1, options.max_iterations) THEN "running"
                   ELSE "done",
      verbose  |-> verbose,
      iter     |-> 1,
      executed |-> 0,
      tree     |-> IF ThrowsNoClock(options.max_time) THEN <<>>
                   ELSE << NewNode(root_state, no_move, 0) >>,
      engine   |-> SeedEngine(seed + Len(jobs)),
      node     |-> 0,
      state    |-> root_state ]

\* NewJob with a fault: static std::mt19937_64 random_engine(initial_seed),
\* one engine seeded by the first call, which a later call goes on with
NewJob_StaticEngine(verbose) ==
    [ status   |-> IF ThrowsNoClock(options.max_time) THEN "thrown"
                   ELSE IF LoopCondition(1, options.max_iterations) THEN "running"
                   ELSE "done",
      verbose  |-> verbose,
      iter     |-> 1,
      executed |-> 0,
      tree     |-> IF ThrowsNoClock(options.max_time) THEN <<>>
                   ELSE << NewNode(root_state, no_move, 0) >>,
      engine   |-> IF jobs = <<>> THEN SeedEngine(seed) ELSE jobs[Len(jobs)].engine,
      node     |-> 0,
      state    |-> root_state ]

\* A compute_tree call from its entry to the first test of the loop
\* condition: it has thrown, or it holds a fresh root and iter = 1.
NewJob(verbose) ==
    [ status   |-> IF ThrowsNoClock(options.max_time) THEN "thrown"
                   ELSE IF LoopCondition(1, options.max_iterations) THEN "running"
                   ELSE "done",      \* "done": root has been returned
      verbose  |-> verbose,          \* options.verbose of this call
      iter     |-> 1,                \* the loop variable
      executed |-> 0,                \* loop bodies completed
      tree     |-> IF ThrowsNoClock(options.max_time) THEN <<>>
                   ELSE << NewNode(root_state, no_move, 0) >>,
      engine   |-> SeedEngine(seed),
      node     |-> 0,                \* where the last backpropagation started
      state    |-> root_state ]      \* the final state of the last playout

\* A caller of Node::add_child passes no options, runs no search and draws
\* no seed: the three are held at one value for it.
Init ==
    /\ entry \in {"compute_move", "compute_tree", "add_child"}
    /\ root_state \in Roots
    /\ options \in [ number_of_threads : IF entry = "compute_move" THEN 0..MaxThreads ELSE {1},
                     max_iterations    : IF entry = "add_child" THEN {0} ELSE -1..MaxIter,
                     max_time          : IF entry = "add_child" THEN {-1} ELSE -1..MaxTime,
                     verbose           : IF entry = "add_child" THEN {FALSE} ELSE BOOLEAN ]
    /\ use_openmp \in IF entry = "add_child" THEN {FALSE} ELSE BOOLEAN
    /\ seed \in IF entry = "add_child" THEN {0} ELSE 0..MaxSeed
    /\ own_tree = <<>>
    /\ pc = "entry"
    /\ jobs = <<>>
    /\ collected = 0
    /\ visits = << >>
    /\ wins = << >>
    /\ games_played = 0
    /\ best_move = no_move

(***************************************************************************)
(* compute_tree (mcts.h), one call = one element of jobs                   *)
(***************************************************************************)
\* The clock is read after the body when verbose or max_time >= 0, in an
\* OpenMP build only.
ReadsClock(verbose, max_time) == use_openmp /\ (verbose \/ max_time >= 0)

\* if (time - start_time >= options.max_time) break;
TimeIsUp(elapsed, max_time) == elapsed >= max_time

\* The readings time - start_time the clock can give after a body; a call
\* that does not read the clock has the one reading 0, which it ignores.
ClockReadings(verbose, max_time) ==
    IF ReadsClock(verbose, max_time) THEN 0..MaxTime ELSE {0}

\* One pass of the for loop: the body, the break or ++iter, and the test
\* of the loop condition that follows; the call returns root when it ends.
Iterate(t) ==
    /\ t \in DOMAIN jobs
    /\ jobs[t].status = "running"
    /\ options.max_iterations < 0 => jobs[t].executed < MaxIter
    /\ \E elapsed \in ClockReadings(jobs[t].verbose, options.max_time),
          it \in {Iteration(jobs[t].tree, jobs[t].engine, root_state)} :
         LET stop == ReadsClock(jobs[t].verbose, options.max_time)
                     /\ TimeIsUp(elapsed, options.max_time)
             iter == IF stop THEN jobs[t].iter ELSE jobs[t].iter + 1
         IN jobs' = [jobs EXCEPT ![t] =
                       [@ EXCEPT !.tree     = it.tree,
                                 !.engine   = it.engine,
                                 !.node     = it.node,
                                 !.state    = it.state,
                                 !.executed = @ + 1,
                                 !.iter     = iter,
                                 !.status   = IF stop \/ ~LoopCondition(iter, options.max_iterations)
                                              THEN "done" ELSE "running"]]
    /\ UNCHANGED << entry, root_state, options, use_openmp, seed, own_tree, pc, collected,
                    visits, wins, games_played, best_move >>

\* Finished with a fault: get() does not wait for the worker
Finished_NoWait(job) == TRUE

\* The future is ready: the call has returned or thrown.
Finished(job) == job.status \in {"done", "thrown"}

(***************************************************************************)
(* A caller of compute_tree itself: the same arguments twice, the second   *)
(* time with the verbose flag as it was or flipped.                        *)
(***************************************************************************)
CallTree ==
    /\ entry = "compute_tree"
    /\ Len(jobs) < 2
    /\ \A t \in DOMAIN jobs : Finished(jobs[t])
    /\ \E verbose \in (IF jobs = <<>> THEN {options.verbose} ELSE BOOLEAN) :
          jobs' = Append(jobs, NewJob(verbose))
    /\ pc' = "calling"
    /\ UNCHANGED << entry, root_state, options, use_openmp, seed, own_tree, collected,
                    visits, wins, games_played, best_move >>

(***************************************************************************)
(* compute_move (mcts.h)                                                   *)
(***************************************************************************)
\* ReturnsAtOnce with a fault: the test for a single move is gone
ReturnsAtOnce_Never(moves) == FALSE

\* if (moves.size() == 1) return moves[0];
ReturnsAtOnce(moves) == Len(moves) = 1

\* where the launch loop stands with n futures pushed
AfterLaunch(n) ==
    IF n < options.number_of_threads THEN "launch"
    ELSE IF 0 < options.number_of_threads THEN "collect"
    ELSE "merge"

ComputeMove ==
    /\ entry = "compute_move"
    /\ pc = "entry"
    /\ LET moves == get_moves(root_state)
       IN IF ReturnsAtOnce(moves)
          THEN /\ pc' = "returned"
               /\ best_move' = moves[1]
          ELSE /\ pc' = AfterLaunch(0)
               /\ UNCHANGED best_move
    /\ UNCHANGED << entry, root_state, options, use_openmp, seed, own_tree, jobs, collected,
                    visits, wins, games_played >>

\* root_futures.push_back(std::async(std::launch::async, func)), with
\* job_options.verbose = false
Launch ==
    /\ pc = "launch"
    /\ jobs' = Append(jobs, NewJob(FALSE))
    /\ pc' = AfterLaunch(Len(jobs) + 1)
    /\ UNCHANGED << entry, root_state, options, use_openmp, seed, own_tree, collected,
                    visits, wins, games_played, best_move >>

\* Collect with a fault: what the worker threw is swallowed and
\* compute_move returns
Collect_Swallows ==
    /\ pc = "collect"
    /\ LET t == collected + 1
       IN /\ Finished(jobs[t])
          /\ IF jobs[t].status = "thrown"
             THEN /\ pc' = "returned"
                  /\ UNCHANGED collected
             ELSE /\ collected' = t
                  /\ pc' = IF t < options.number_of_threads THEN "collect" ELSE "merge"
    /\ UNCHANGED << entry, root_state, options, use_openmp, seed, own_tree, jobs,
                    visits, wins, games_played, best_move >>

\* roots.push_back(std::move(root_futures[t].get())): blocks until job t
\* has finished and rethrows what it threw.
Collect ==
    /\ pc = "collect"
    /\ LET t == collected + 1
       IN /\ Finished(jobs[t])
          /\ IF jobs[t].status = "thrown"
             THEN /\ pc' = "failed"
                  /\ UNCHANGED collected
             ELSE /\ collected' = t
                  /\ pc' = IF t < options.number_of_threads THEN "collect" ELSE "merge"
    /\ UNCHANGED << entry, root_state, options, use_openmp, seed, own_tree, jobs,
                    visits, wins, games_played, best_move >>

\* std::map operator[]: a missing key reads as 0.
MapGet(map, move) == IF move \in DOMAIN map THEN map[move] ELSE 0

MapPut(map, move, value) ==
    [m \in DOMAIN map \cup {move} |-> IF m = move THEN value ELSE map[m]]

\* AddChild with a fault: = in place of +=
AddChild_Overwrite(acc, child) ==
    [ visits |-> MapPut(acc.visits, child.move, child.visits),
      wins   |-> MapPut(acc.wins, child.move, child.wins),
      games_played |-> acc.games_played ]

\* visits[(*child)->move] += (*child)->visits; wins likewise
AddChild(acc, child) ==
    [ visits |-> MapPut(acc.visits, child.move, MapGet(acc.visits, child.move) + child.visits),
      wins   |-> MapPut(acc.wins, child.move, MapGet(acc.wins, child.move) + child.wins),
      games_played |-> acc.games_played ]

RECURSIVE MergeChildren(_, _, _)
MergeChildren(acc, tree, from) ==
    IF from > Len(tree[1].children) THEN acc
    ELSE MergeChildren(AddChild(acc, tree[tree[1].children[from]]), tree, from + 1)

\* The merge loop over roots[from..]
RECURSIVE MergeRoots(_, _, _)
MergeRoots(acc, roots, from) ==
    IF from > Len(roots) THEN acc
    ELSE MergeRoots(
             MergeChildren([acc EXCEPT !.games_played = @ + roots[from][1].visits],
                           roots[from], 1),
             roots, from + 1)

\* operator< of std::pair<int, int>, the order std::map iterates in
MoveLess(a, b) == a[1] < b[1] \/ (a[1] = b[1] /\ a[2] < b[2])

RECURSIVE InOrder(_)
InOrder(S) ==
    IF S = {} THEN <<>>
    ELSE LET first == CHOOSE m \in S : \A o \in S \ {m} : MoveLess(m, o)
         IN <<first>> \o InOrder(S \ {first})

\* RateGreater with a fault: >= in place of >
RateGreater_OrEqual(num, den, best_num, best_den) == num * best_den >= best_num * den

\* expected_success_rate > best_score, both as fractions num / den with
\* den > 0: (w + 1) / (v + 2) with w in half points is (w + 2) / (2 v + 4).
RateGreater(num, den, best_num, best_den) == num * best_den > best_num * den

\* The selection loop over the keys of visits from position from on.
RECURSIVE SelectBest(_, _, _, _, _)
SelectBest(keys, from, vmap, wmap, best) ==
    IF from > Len(keys) THEN best
    ELSE LET move == keys[from]
             num  == MapGet(wmap, move) + 2
             den  == 2 * vmap[move] + 4
         IN SelectBest(keys, from + 1, vmap, wmap,
                IF RateGreater(num, den, best.num, best.den)
                THEN [move |-> move, num |-> num, den |-> den]
                ELSE best)

\* double best_score = -1; Move best_move = Move();
NoBest == [move |-> <<0, 0>>, num |-> -1, den |-> 1]

\* auto best_wins = wins[best_move]; auto best_visits = visits[best_move];
\* of the verbose report: operator[] puts a missing key into the map with
\* the value 0, which happens when no move was merged.
MapTouch(map, move) == IF move \in DOMAIN map THEN map ELSE MapPut(map, move, 0)

\* Everything after the futures are taken: merge, select, report, return.
Merge ==
    /\ pc = "merge"
    /\ \E acc \in {MergeRoots([visits |-> << >>, wins |-> << >>, games_played |-> 0],
                                [t \in 1..collected |-> jobs[t].tree], 1)} :
       \E best \in {SelectBest(InOrder(DOMAIN acc.visits), 1, acc.visits, acc.wins, NoBest).move} :
          /\ visits' = IF options.verbose THEN MapTouch(acc.visits, best) ELSE acc.visits
          /\ wins' = IF options.verbose THEN MapTouch(acc.wins, best) ELSE acc.wins
          /\ games_played' = acc.games_played
          /\ best_move' = best
    /\ pc' = "returned"
    /\ UNCHANGED << entry, root_state, options, use_openmp, seed, own_tree, jobs, collected >>

(***************************************************************************)
(* A caller of Node::add_child itself (mcts.h): a root node built from the *)
(* root state, and add_child calls on it with moves of the caller's        *)
(* choice, one after another until a call was made with a move outside the *)
(* frontier.                                                               *)
(***************************************************************************)
\* moves.data() of a node: a vector gets its storage with its first element
\* and keeps it when elements are erased.  The constructor copies
\* get_moves(), and every add_child call pushes a child, so the frontier
\* never held a move exactly when it is empty and the node has no child.
FrontierData(node) ==
    IF node.moves = <<>> /\ node.children = <<>> THEN "nullptr" ELSE "storage"

\* The vector that libstdc++'s erase(end()) leaves of an empty one: end()
\* has moved one element before begin(), so size() is 2^64 - 1 (four
\* 16-bit limbs, most significant first) and empty() is false; data() is
\* what it was, nullptr for a vector that never held an element, where no
\* element can be read, and the old storage otherwise.
WrappedFrontier(data) == [size |-> <<65535, 65535, 65535, 65535>>, data |-> data]

\* moves.erase(moves.end()), which the standard leaves undefined: the
\* frontiers a build leaves behind when it goes on.  libstdc++ moves the
\* end pointer back by one, so the last move is gone, and an empty vector
\* becomes the wrapped one, for which has_untried_moves() is true.
EraseAtEnd(moves, data) ==
    IF moves = <<>>
    THEN { WrappedFrontier(data) }
    ELSE { SubSeq(moves, 1, Len(moves) - 1) }

\* add_child(move, state) on node n as any caller may make it.  With move
\* in the frontier it is add_child above.  Otherwise the loop ends with
\* itr == moves.end(): the child has been pushed already, erase(end()) is
\* undefined, and a build with checked iterators aborts in it.
AddChildOutcomes(tree, n, move, state) ==
    IF move \in Range(tree[n].moves)
    THEN { [tree |-> add_child(tree, n, move, state), aborted |-> FALSE] }
    ELSE LET pushed == Append([tree EXCEPT ![n].children = Append(@, Len(tree) + 1)],
                              NewNode(state, move, n))
         IN { [tree |-> [pushed EXCEPT ![n].moves = left], aborted |-> FALSE] :
                  left \in EraseAtEnd(tree[n].moves, FrontierData(tree[n])) }
            \cup { [tree |-> pushed, aborted |-> TRUE] }

\* The root of the caller before its next call
OwnTree == IF own_tree = <<>> THEN << NewNode(root_state, no_move, 0) >> ELSE own_tree

\* Every call made so far was made with a move of the frontier, which
\* holds the legal moves that no child has yet: the moves of the children
\* are legal moves of the root, each of another.
CallsInFrontier(tree) ==
    LET made == [i \in DOMAIN tree[1].children |-> tree[tree[1].children[i]].move]
    IN /\ \A i \in DOMAIN made : made[i] \in Range(get_moves(root_state))
       /\ \A i, j \in DOMAIN made : i # j => made[i] # made[j]

CallAddChild ==
    /\ entry = "add_child"
    /\ pc \in {"entry", "added"}
    /\ CallsInFrontier(OwnTree)
    /\ \E move \in Cells :
         \E out \in AddChildOutcomes(OwnTree, 1, move,
                                      IF move \in Range(get_moves(root_state))
                                      THEN do_move(root_state, move) ELSE root_state) :
            /\ own_tree' = out.tree
            /\ pc' = IF out.aborted THEN "aborted" ELSE "added"
    /\ UNCHANGED << entry, root_state, options, use_openmp, seed, jobs, collected,
                    visits, wins, games_played, best_move >>

Next ==
    \/ ComputeMove
    \/ Launch
    \/ Collect
    \/ Merge
    \/ CallTree
    \/ CallAddChild
    \/ \E t \in 1..(MaxThreads + 2) : Iterate(t)

Spec == Init /\ [][Next]_vars

(***************************************************************************)
(* Long searches: compute_move on DeepState with max_iterations =          *)
(* DeepIter, no time limit, the seed DeepSeed and 1..MaxThreads workers.   *)
(***************************************************************************)
InitDeep ==
    /\ entry = "compute_move"
    /\ root_state = DeepState
    /\ options \in [ number_of_threads : 1..MaxThreads,
                     max_iterations    : {DeepIter},
                     max_time          : {-1},
                     verbose           : {FALSE} ]
    /\ use_openmp = TRUE
    /\ seed = DeepSeed
    /\ own_tree = <<>>
    /\ pc = "entry"
    /\ jobs = <<>>
    /\ collected = 0
    /\ visits = << >>
    /\ wins = << >>
    /\ games_played = 0
    /\ best_move = no_move

NextDeep ==
    \/ ComputeMove
    \/ Launch
    \/ Collect
    \/ Merge
    \/ \E t \in 1..MaxThreads : Iterate(t)

SpecDeep == InitDeep /\ [][NextDeep]_vars

(***************************************************************************)
(* Vocabulary of the properties                                            *)
(***************************************************************************)
InComputeMove == entry = "compute_move"

RootMoves == get_moves(root_state)

\* compute_move has returned through the merge and the selection
ReturnedFromMerge == InComputeMove /\ pc = "returned" /\ Len(RootMoves) # 1

\* The children of the root of tree that were made by move m
RootChildrenFor(tree, m) == { c \in Range(tree[1].children) : tree[c].move = m }

RECURSIVE SumVisits(_, _)
SumVisits(tree, nodes) ==
    IF nodes = {} THEN 0
    ELSE LET c == CHOOSE x \in nodes : TRUE
         IN tree[c].visits + SumVisits(tree, nodes \ {c})

RECURSIVE SumWins(_, _)
SumWins(tree, nodes) ==
    IF nodes = {} THEN 0
    ELSE LET c == CHOOSE x \in nodes : TRUE
         IN tree[c].wins + SumWins(tree, nodes \ {c})

\* Sums over the trees 1..t of the jobs
RECURSIVE VisitsOverTrees(_, _)
VisitsOverTrees(m, t) ==
    IF t = 0 THEN 0
    ELSE SumVisits(jobs[t].tree, RootChildrenFor(jobs[t].tree, m)) + VisitsOverTrees(m, t - 1)

RECURSIVE WinsOverTrees(_, _)
WinsOverTrees(m, t) ==
    IF t = 0 THEN 0
    ELSE SumWins(jobs[t].tree, RootChildrenFor(jobs[t].tree, m)) + WinsOverTrees(m, t - 1)

RECURSIVE RootVisitsOverTrees(_)
RootVisitsOverTrees(t) ==
    IF t = 0 THEN 0 ELSE jobs[t].tree[1].visits + RootVisitsOverTrees(t - 1)

\* The nodes from n up the parent links to the root
RECURSIVE Chain(_, _)
Chain(tree, n) == IF n = 0 THEN {} ELSE {n} \cup Chain(tree, tree[n].parent)

(***************************************************************************)
(* C1  A root state with exactly one legal move: compute_move returns that *)
(* move, whatever the options, and no compute_tree call is ever made, so   *)
(* no node is created and no iteration runs.                               *)
(***************************************************************************)
C1_SingleMoveShortCircuit ==
    (InComputeMove /\ Len(RootMoves) = 1) =>
        /\ jobs = <<>>
        /\ pc \in {"entry", "returned"}
        /\ pc = "returned" => best_move = RootMoves[1]

C1_Witness ==
    /\ InComputeMove
    /\ Len(RootMoves) = 1
    /\ pc = "returned"
    /\ options.number_of_threads >= 1
    /\ options.max_iterations >= 1

(***************************************************************************)
(* C2  A terminal root state (get_moves() empty): compute_move returns     *)
(* State::no_move at once, without a compute_tree call; stated for the     *)
(* options with number_of_threads >= 1 and max_iterations >= 0.            *)
(***************************************************************************)
C2_TerminalReturnsNoMove ==
    ( /\ InComputeMove
      /\ RootMoves = <<>>
      /\ options.number_of_threads >= 1
      /\ options.max_iterations >= 0
      /\ pc = "returned" ) =>
        /\ best_move = no_move
        /\ jobs = <<>>

(***************************************************************************)
(* C3  A root state with two or more legal moves, number_of_threads >= 1   *)
(* and max_iterations >= 0 or max_time >= 0: the move returned is a legal  *)
(* move of the root state.                                                 *)
(***************************************************************************)
C3_ReturnsLegalMove ==
    ( /\ InComputeMove
      /\ Len(RootMoves) >= 2
      /\ options.number_of_threads >= 1
      /\ (options.max_iterations >= 0 \/ options.max_time >= 0)
      /\ pc = "returned" )
    => best_move \in Range(RootMoves)

(***************************************************************************)
(* C4  After the merge over T trees, for every move m: visits[m] is the    *)
(* sum over the T roots of the visits of the root's child for m (0 where a *)
(* tree never expanded m), wins[m] the like sum of wins, and games_played  *)
(* is the sum of the roots' visits.  A move that some root has a child for *)
(* is a key of both maps; the only other key there can be is the returned  *)
(* move, which the verbose report reads from the maps.                     *)
(***************************************************************************)
C4_MergeIsSum ==
    ReturnedFromMerge =>
        LET T == options.number_of_threads
        IN /\ \A m \in Cells :
                /\ MapGet(visits, m) = VisitsOverTrees(m, T)
                /\ MapGet(wins, m) = WinsOverTrees(m, T)
                /\ (\E t \in 1..T : RootChildrenFor(jobs[t].tree, m) # {}) => m \in DOMAIN visits
                /\ m \in DOMAIN visits =>
                       \/ \E t \in 1..T : RootChildrenFor(jobs[t].tree, m) # {}
                       \/ options.verbose /\ m = best_move
           /\ DOMAIN wins = DOMAIN visits
           /\ DOMAIN visits \subseteq Cells
           /\ games_played = RootVisitsOverTrees(T)

\* two trees that differ: a move one root expanded and the other did not
C4_Witness ==
    /\ ReturnedFromMerge
    /\ options.number_of_threads = 2
    /\ \E m \in DOMAIN visits :
         /\ RootChildrenFor(jobs[1].tree, m) # {}
         /\ RootChildrenFor(jobs[2].tree, m) = {}
    /\ \E m \in DOMAIN visits :
         /\ RootChildrenFor(jobs[1].tree, m) # {}
         /\ RootChildrenFor(jobs[2].tree, m) # {}

(***************************************************************************)
(* C5  The selection returns a move of largest (wins + 1) / (visits + 2)   *)
(* among the keys of the merged maps, and among several of the largest     *)
(* rate the first in ascending move order.  This fixes the move from the   *)
(* merged statistics alone.                                                *)
(***************************************************************************)
\* rate(a) < rate(b), rate(m) = (wins[m] + 2) / (2 visits[m] + 4) in half points
RateLess(a, b) == (wins[a] + 2) * (2 * visits[b] + 4) < (wins[b] + 2) * (2 * visits[a] + 4)

C5_SelectsFirstBestRate ==
    (ReturnedFromMerge /\ DOMAIN visits # {}) =>
        /\ best_move \in DOMAIN visits
        /\ \A m \in DOMAIN visits :
              /\ ~RateLess(best_move, m)
              /\ MoveLess(m, best_move) => RateLess(m, best_move)

\* several moves of the largest rate: a later move ties with the one chosen
C5_Witness ==
    /\ ReturnedFromMerge
    /\ \E m \in DOMAIN visits :
         /\ MoveLess(best_move, m)
         /\ ~RateLess(m, best_move)

(***************************************************************************)
(* C6  In every compute_tree call, after every completed iteration and at  *)
(* its return, root.visits is the number of iterations executed.           *)
(***************************************************************************)
C6_RootVisitsCountIterations ==
    \A t \in DOMAIN jobs :
        jobs[t].status # "thrown" => jobs[t].tree[1].visits = jobs[t].executed

\* iterations of both kinds: the tree of a root with legal moves has fewer
\* nodes than 1 + executed, so an iteration ended at a game-terminal node
\* without expanding, and the others expanded
C6_Witness ==
    \E t \in DOMAIN jobs :
        /\ jobs[t].status = "done"
        /\ jobs[t].executed >= 3
        /\ RootMoves # <<>>
        /\ Len(jobs[t].tree) < 1 + jobs[t].executed
        /\ Len(jobs[t].tree[jobs[t].node].moves) = 0
        /\ jobs[t].tree[1].visits = jobs[t].executed

(***************************************************************************)
(* C7  One iteration updates exactly the nodes on the parent chain from    *)
(* the node it ended at (the new child, or the game-terminal node that was *)
(* selected) up to the root: each of them gains 1 visit and the result of  *)
(* the playout for its player_to_move; every other node keeps its visits   *)
(* and wins.                                                               *)
(***************************************************************************)
IterationFrame(old, new) ==
    LET Before(n, field) == IF n <= Len(old.tree) THEN old.tree[n][field] ELSE 0
        path == Chain(new.tree, new.node)
    IN /\ new.node \in 1..Len(new.tree)
       /\ 1 \in path
       /\ \/ /\ Len(new.tree) = Len(old.tree) + 1
             /\ new.node = Len(new.tree)
          \/ /\ Len(new.tree) = Len(old.tree)
             /\ new.tree[new.node].moves = <<>>
             /\ new.tree[new.node].children = <<>>
       /\ \A n \in 1..Len(new.tree) :
            IF n \in path
            THEN /\ new.tree[n].visits = Before(n, "visits") + 1
                 /\ new.tree[n].wins = Before(n, "wins")
                        + get_result(new.state, new.tree[n].player_to_move)
            ELSE /\ new.tree[n].visits = Before(n, "visits")
                 /\ new.tree[n].wins = Before(n, "wins")

C7_BackpropagationFrame ==
    [][ \A t \in DOMAIN jobs :
          jobs'[t].executed = jobs[t].executed + 1 => IterationFrame(jobs[t], jobs'[t]) ]_vars

\* an iteration that ended two levels below the root, with nodes off its
\* path, after a playout that somebody won
C7_Witness ==
    \E t \in DOMAIN jobs :
        LET tree == jobs[t].tree
            node == jobs[t].node
        IN /\ jobs[t].executed >= 1
           /\ node # 0
           /\ tree[node].parent > 1
           /\ Len(tree) > Cardinality(Chain(tree, node))
           /\ get_winner(jobs[t].state) # 0
           /\ tree[node].wins # tree[tree[node].parent].wins

(***************************************************************************)
(* C8  compute_move with max_iterations < 0 and max_time < 0 is refused    *)
(* with a configuration error before any worker is launched: no            *)
(* compute_tree call is ever made.                                         *)
(***************************************************************************)
C8_RejectsUnboundedSearch ==
    (InComputeMove /\ options.max_iterations < 0 /\ options.max_time < 0) => jobs = <<>>

(***************************************************************************)
(* C9  compute_move with number_of_threads < 1 is refused with a           *)
(* configuration error: it returns no move.  (A root state with a single   *)
(* legal move is answered before the options are looked at, C1; the        *)
(* statement is about every other root state, and stated for a bounded     *)
(* search, max_iterations >= 0.)                                           *)
(***************************************************************************)
C9_RejectsNoThreads ==
    ( /\ InComputeMove
      /\ options.number_of_threads < 1
      /\ options.max_iterations >= 0
      /\ Len(RootMoves) # 1 )
    => pc # "returned"

(***************************************************************************)
(* C10  verbose does not affect the search: in a build with a clock, two   *)
(* compute_tree calls with the same root state, seed, max_iterations and   *)
(* negative max_time, one with verbose and one without, execute the same   *)
(* number of iterations and return the same tree.                          *)
(***************************************************************************)
C10_VerboseDoesNotAffectTree ==
    ( /\ entry = "compute_tree"
      /\ use_openmp
      /\ options.max_time < 0
      /\ Len(jobs) = 2
      /\ jobs[1].status = "done"
      /\ jobs[2].status = "done" )
    => /\ jobs[1].executed = jobs[2].executed
       /\ jobs[1].tree = jobs[2].tree

(***************************************************************************)
(* C11  Two compute_tree calls without verbose, from the same root state   *)
(* and seed, with max_iterations >= 0 and max_time < 0: the tree and the   *)
(* engine of a call after k iterations are those that k iterations make of *)
(* a fresh root and an engine seeded with the seed, whatever calls came    *)
(* before it or run beside it; so after the same number of iterations two  *)
(* calls hold the same tree and engine, and both return after              *)
(* max_iterations iterations with identical trees, visits and wins of      *)
(* every node included.  Where the selection has several children of the   *)
(* largest UCT score it takes the first of them in insertion order.        *)
(***************************************************************************)
\* The selection applies to node n: nothing left to try, some child.
Selectable(tree, n) == ~has_untried_moves(tree[n]) /\ has_children(tree[n])

\* The position of child c among the children of n
ChildIndex(tree, n, c) == CHOOSE i \in DOMAIN tree[n].children : tree[n].children[i] = c

FirstMaximalChild(tree, n) ==
    LET c == select_child_UCT(tree, n)
    IN /\ c \in Range(tree[n].children)
       /\ \A d \in Range(tree[n].children) :
            /\ ~UCT_less(tree[c], tree[d], tree[n].visits)
            /\ ChildIndex(tree, n, d) < ChildIndex(tree, n, c)
                  => UCT_less(tree[d], tree[c], tree[n].visits)

\* What k iterations make of the arguments of a call alone
IterateOn(run, state) == Iteration(run.tree, run.engine, state)

RECURSIVE TreeAfter(_, _, _)
TreeAfter(state, initial_seed, k) ==
    IF k = 0
    THEN [ tree   |-> << NewNode(state, no_move, 0) >>,
           engine |-> SeedEngine(initial_seed),
           node   |-> 0,
           state  |-> state ]
    ELSE IterateOn(TreeAfter(state, initial_seed, k - 1), state)

C11_SameSeedSameTree ==
    /\ \A t \in DOMAIN jobs :
          jobs[t].status # "thrown" =>
              \A n \in DOMAIN jobs[t].tree :
                  Selectable(jobs[t].tree, n) => FirstMaximalChild(jobs[t].tree, n)
    /\ (options.max_iterations >= 0 /\ options.max_time < 0) =>
          /\ \A t \in DOMAIN jobs :
                ~jobs[t].verbose =>
                    /\ jobs[t].tree = TreeAfter(root_state, seed, jobs[t].executed).tree
                    /\ jobs[t].engine = TreeAfter(root_state, seed, jobs[t].executed).engine
                    /\ jobs[t].status = "done" => jobs[t].executed = options.max_iterations
          /\ \A t, u \in DOMAIN jobs :
                (~jobs[t].verbose /\ ~jobs[u].verbose /\ jobs[t].executed = jobs[u].executed) =>
                    /\ jobs[t].tree = jobs[u].tree
                    /\ jobs[t].engine = jobs[u].engine

\* two compute_tree calls of one caller, one after the other, returned the
\* same tree after three iterations; before the third the two children of
\* the root had the same statistics, a tie, and the third went to the
\* first child
C11_Witness ==
    /\ entry = "compute_tree"
    /\ options.max_iterations = 3
    /\ options.max_time < 0
    /\ Len(jobs) = 2
    /\ ~jobs[1].verbose /\ ~jobs[2].verbose
    /\ jobs[1].status = "done" /\ jobs[2].status = "done"
    /\ jobs[1].tree = jobs[2].tree
    /\ LET tree  == jobs[1].tree
           first == tree[1].children[1]
       IN /\ Len(tree[1].children) = 2
          /\ tree[1].moves = <<>>
          /\ jobs[1].node # 0
          /\ first \in Chain(tree, jobs[1].node)
          /\ LET second == tree[1].children[2]
             IN /\ tree[first].visits - 1 = tree[second].visits
                /\ tree[first].wins - get_result(jobs[1].state, tree[first].player_to_move)
                      = tree[second].wins

(***************************************************************************)
(* C12  In one compute_move call each worker owns its tree: a step that    *)
(* changes the tree, engine or counters of one worker leaves every other   *)
(* worker and the coordinator's variables alone, under every interleaving. *)
(* The coordinator merges only when every worker has finished and all      *)
(* futures are taken, the merge changes no tree, and compute_move is left, *)
(* by return or by exception, only when no worker is running.              *)
(***************************************************************************)
Coordinator == << pc, collected, visits, wins, games_played, best_move >>

NoWorkerRunning == \A t \in DOMAIN jobs : jobs[t].status # "running"

C12_MergeAfterWorkers ==
    InComputeMove =>
        /\ pc \in {"merge", "returned", "failed"} => NoWorkerRunning
        /\ pc = "merge" =>
              /\ Len(jobs) = options.number_of_threads
              /\ collected = Len(jobs)

C12_OwnTree ==
    InComputeMove =>
        /\ \A t \in DOMAIN jobs :
              jobs'[t] # jobs[t] =>
                  /\ jobs[t].status = "running"
                  /\ \A u \in DOMAIN jobs \ {t} : jobs'[u] = jobs[u]
                  /\ Coordinator' = Coordinator
        /\ Coordinator' # Coordinator =>
              \A t \in DOMAIN jobs : jobs'[t] = jobs[t]

C12_WorkersIsolated == []C12_MergeAfterWorkers /\ [][C12_OwnTree]_vars

\* the coordinator has taken the first worker's tree and waits for the
\* second, which is still running one iteration behind
C12_Witness ==
    /\ InComputeMove
    /\ pc = "collect"
    /\ collected = 1
    /\ jobs[1].executed >= 2
    /\ jobs[2].status = "running"
    /\ jobs[2].executed = 1

(***************************************************************************)
(* C13  When a worker's compute_tree call throws, compute_move does not    *)
(* return: the call ends with the exception at the get() of that worker,   *)
(* no merge is made and no move, map entry or games_played comes out of    *)
(* it.  compute_move ends with an exception only in this way.              *)
(***************************************************************************)
SomeWorkerThrew == \E t \in DOMAIN jobs : jobs[t].status = "thrown"

C13_WorkerFailurePropagates ==
    InComputeMove =>
        /\ SomeWorkerThrew =>
              /\ pc \in {"launch", "collect", "failed"}
              /\ best_move = no_move
              /\ visits = << >> /\ wins = << >>
              /\ games_played = 0
        /\ pc = "failed" =>
              /\ collected < Len(jobs)
              /\ jobs[collected + 1].status = "thrown"

\* two workers were launched with max_time >= 0 in a build without a clock
\* and compute_move has ended with the exception
C13_Witness ==
    /\ InComputeMove
    /\ pc = "failed"
    /\ Len(jobs) = 2
    /\ options.max_time >= 0
    /\ options.max_iterations >= 1
    /\ ~use_openmp
    /\ Len(RootMoves) >= 2

(***************************************************************************)
(* C14  Between the iterations of a compute_tree call every node below the *)
(* root has visits >= 1, and every node the selection applies to (nothing  *)
(* left to try, some child) has visits >= 1 and children of visits >= 1,   *)
(* so that select_child_UCT never divides by zero.  The tree does not      *)
(* change during the descent, so this covers every call of an iteration.   *)
(***************************************************************************)
C14_SelectionSeesVisits ==
    \A t \in DOMAIN jobs :
        jobs[t].status # "thrown" =>
            LET tree == jobs[t].tree
            IN /\ \A n \in 2..Len(tree) : tree[n].visits >= 1
               /\ \A n \in DOMAIN tree :
                     Selectable(tree, n) =>
                         /\ tree[n].visits >= 1
                         /\ \A c \in Range(tree[n].children) : tree[c].visits >= 1

\* the last iteration went through select_child_UCT at the root: it ended
\* two levels down, below a root with nothing left to try
C14_Witness ==
    \E t \in DOMAIN jobs :
        LET tree == jobs[t].tree
            node == jobs[t].node
        IN /\ jobs[t].executed >= 3
           /\ node # 0
           /\ tree[node].parent > 1
           /\ Selectable(tree, 1)
           /\ Len(tree[1].children) >= 2
           /\ tree[node].visits = 1

(***************************************************************************)
(* C15  In every tree of a compute_tree call, between iterations, for      *)
(* every node: the moves of its children are pairwise distinct, none of    *)
(* them is among its untried moves, and the two together are exactly the   *)
(* legal moves of the node's position (the root state after the moves on   *)
(* the path to the node).  An iteration adds at most one node; when it     *)
(* adds one, the parent loses exactly that move from its untried moves and *)
(* gains the node as its last child, and no other frontier or child list   *)
(* changes; no frontier ever grows.                                        *)
(***************************************************************************)
\* The moves from the root to node n
RECURSIVE PathMoves(_, _)
PathMoves(tree, n) ==
    IF tree[n].parent = 0 THEN <<>>
    ELSE Append(PathMoves(tree, tree[n].parent), tree[n].move)

PositionOf(tree, n) == PlayAll(root_state, PathMoves(tree, n))

ChildMoves(tree, n) == { tree[c].move : c \in Range(tree[n].children) }

FrontierPartition(tree, n) ==
    /\ \A i, j \in DOMAIN tree[n].children :
          i # j => tree[tree[n].children[i]].move # tree[tree[n].children[j]].move
    /\ ChildMoves(tree, n) \cap Range(tree[n].moves) = {}
    /\ ChildMoves(tree, n) \cup Range(tree[n].moves) = Range(get_moves(PositionOf(tree, n)))
    /\ \A c \in Range(tree[n].children) : tree[c].parent = n

C15_FrontierPartitions ==
    \A t \in DOMAIN jobs :
        jobs[t].status # "thrown" =>
            \A n \in DOMAIN jobs[t].tree : FrontierPartition(jobs[t].tree, n)

\* old and new tree of one iteration
FrontierStep(old, new) ==
    /\ Len(new) \in {Len(old), Len(old) + 1}
    /\ \A n \in DOMAIN old :
          /\ Len(new[n].moves) <= Len(old[n].moves)
          /\ Range(new[n].moves) \subseteq Range(old[n].moves)
          /\ IF Len(new) > Len(old) /\ new[Len(new)].parent = n
             THEN /\ new[n].children = Append(old[n].children, Len(new))
                  /\ Len(new[n].moves) = Len(old[n].moves) - 1
                  /\ new[Len(new)].move \in Range(old[n].moves)
                  /\ new[Len(new)].move \notin Range(new[n].moves)
             ELSE /\ new[n].children = old[n].children
                  /\ new[n].moves = old[n].moves
    /\ Len(new) > Len(old) =>
          /\ new[Len(new)].parent \in DOMAIN old
          /\ new[Len(new)].children = <<>>

C15_FrontierShrinks ==
    \A t \in DOMAIN jobs :
        jobs'[t].tree # jobs[t].tree => FrontierStep(jobs[t].tree, jobs'[t].tree)

C15_FrontierInvariant == []C15_FrontierPartitions /\ [][C15_FrontierShrinks]_vars

\* after two add_child calls on it a node has two children and a move
\* still to try
C15_Witness ==
    \E t \in DOMAIN jobs :
        LET tree == jobs[t].tree
        IN /\ jobs[t].executed = 2
           /\ Len(tree) = 3
           /\ \E n \in DOMAIN tree :
                 /\ Len(tree[n].children) = 2
                 /\ Len(tree[n].moves) = 1
                 /\ Len(get_moves(PositionOf(tree, n))) = 3

(***************************************************************************)
(* C16  add_child called with a move that is not in the node's frontier is *)
(* detected: the call aborts and the caller does not get to see a node     *)
(* with a child for that move.                                             *)
(***************************************************************************)
\* the caller's last add_child call was made with a move outside the frontier
AddChildOutsideFrontier ==
    /\ entry = "add_child"
    /\ pc # "entry"
    /\ ~CallsInFrontier(own_tree)

C16_ForeignMoveAborts == AddChildOutsideFrontier => pc = "aborted"

(***************************************************************************)
(* C17  In the backpropagation of one iteration every node below the root  *)
(* on the path gains 1.0 (2 half points) when the playout was won by the   *)
(* player who played the node's move, that is the player to move in its    *)
(* parent's position, 0.0 when that player lost, and 0.5 when nobody won.  *)
(* After a decisive playout a node on the path and its parent, the root    *)
(* included, gain results that add up to 1.0.                              *)
(***************************************************************************)
\* The player who played the move of node n
Mover(tree, n) == PositionOf(tree, tree[n].parent).player_to_move

ResultPerspective(old, new) ==
    LET winner == get_winner(new.state)
        Gain(n) == new.tree[n].wins - (IF n <= Len(old.tree) THEN old.tree[n].wins ELSE 0)
    IN \A n \in Chain(new.tree, new.node) :
          new.tree[n].parent # 0 =>
              /\ winner = 0 => Gain(n) = 1
              /\ (winner # 0 /\ winner = Mover(new.tree, n)) => Gain(n) = 2
              /\ (winner # 0 /\ winner # Mover(new.tree, n)) => Gain(n) = 0
              /\ winner # 0 => Gain(n) + Gain(new.tree[n].parent) = 2

C17_ResultForMover ==
    [][ \A t \in DOMAIN jobs :
          jobs'[t].executed = jobs[t].executed + 1 => ResultPerspective(jobs[t], jobs'[t]) ]_vars

\* a playout won by the player who played the move of the new node, two
\* levels below the root: the node has 1.0, its parent got 0.0 from it
C17_Witness ==
    \E t \in DOMAIN jobs :
        LET tree == jobs[t].tree
            node == jobs[t].node
        IN /\ jobs[t].executed >= 1
           /\ node # 0
           /\ tree[node].parent > 1
           /\ get_winner(jobs[t].state) = Mover(tree, node)
           /\ tree[node].visits = 1
           /\ tree[node].wins = 2

(***************************************************************************)
(* C18  A compute_tree call with max_iterations = N >= 0 never executes    *)
(* more than N iterations and has returned when it has executed N.  It     *)
(* ends early only by the clock, which is looked at after a completed      *)
(* iteration: a call that returned with N >= 1 has executed at least one.  *)
(* A call that does not read the clock (max_time < 0 and verbose false, or *)
(* a build without a clock) returns after exactly N iterations.            *)
(***************************************************************************)
C18_IterationBudgetExact ==
    options.max_iterations >= 0 =>
        \A t \in DOMAIN jobs :
            jobs[t].status # "thrown" =>
                /\ jobs[t].executed <= options.max_iterations
                /\ jobs[t].executed = options.max_iterations => jobs[t].status = "done"
                /\ jobs[t].status = "done" =>
                      /\ options.max_iterations >= 1 => jobs[t].executed >= 1
                      /\ jobs[t].executed < options.max_iterations
                            => ReadsClock(jobs[t].verbose, options.max_time)
                      /\ (options.max_time < 0 /\ ~jobs[t].verbose)
                            => jobs[t].executed = options.max_iterations

\* a call without clock that returned after exactly three iterations, in
\* a build that has a clock
C18_Witness ==
    \E t \in DOMAIN jobs :
        /\ use_openmp
        /\ options.max_time < 0
        /\ ~jobs[t].verbose
        /\ options.max_iterations = 3
        /\ jobs[t].status = "done"
        /\ jobs[t].executed = 3
        /\ Len(jobs[t].tree) >= 3

(***************************************************************************)
(* C19  Between the iterations of a compute_tree call: a root with a       *)
(* non-terminal position has visits equal to the sum of its children's     *)
(* visits, and every other node with a non-terminal position has 1 more    *)
(* than the sum of its children's visits.  After the merge of compute_move *)
(* the visits of all moves add up to games_played.                         *)
(***************************************************************************)
ChildVisits(tree, n) == SumVisits(tree, Range(tree[n].children))

RECURSIVE SumMap(_, _)
SumMap(map, keys) ==
    IF keys = {} THEN 0
    ELSE LET m == CHOOSE x \in keys : TRUE
         IN map[m] + SumMap(map, keys \ {m})

\* the clauses about the nodes of one tree
NodeVisitsConserved ==
    \A t \in DOMAIN jobs :
        jobs[t].status # "thrown" =>
            LET tree == jobs[t].tree
            IN \A n \in DOMAIN tree :
                  has_moves(PositionOf(tree, n)) =>
                      tree[n].visits = (IF n = 1 THEN 0 ELSE 1) + ChildVisits(tree, n)

C19_VisitsConserved ==
    /\ NodeVisitsConserved
    /\ ReturnedFromMerge => SumMap(visits, DOMAIN visits) = games_played

(***************************************************************************)
(* C20  compute_move with max_time < 0 and T >= 1 workers, all given the   *)
(* same seed: under every interleaving the workers return identical trees, *)
(* and after the merge every move has T times the visits and T times the   *)
(* wins of its child in one tree.  The move returned is the first move in  *)
(* ascending order of largest (T * w + 1) / (T * v + 2), w and v the wins  *)
(* and visits of the move in one tree; it depends on T.                    *)
(***************************************************************************)
OneTreeVisits(m) == SumVisits(jobs[1].tree, RootChildrenFor(jobs[1].tree, m))

OneTreeWins(m) == SumWins(jobs[1].tree, RootChildrenFor(jobs[1].tree, m))

OneTreeMoves == ChildMoves(jobs[1].tree, 1)

\* rate(a) < rate(b) for T copies of the first tree, wins in half points
ScaledRateLess(T, a, b) ==
    (T * OneTreeWins(a) + 2) * (2 * T * OneTreeVisits(b) + 4)
        < (T * OneTreeWins(b) + 2) * (2 * T * OneTreeVisits(a) + 4)

IterationOnlyReturn ==
    /\ ReturnedFromMerge
    /\ options.max_time < 0
    /\ options.max_iterations >= 0
    /\ options.number_of_threads >= 1

WorkersIdentical ==
    LET T == options.number_of_threads
    IN /\ \A t \in 1..T : jobs[t].tree = jobs[1].tree
       /\ DOMAIN visits = OneTreeMoves
       /\ \A m \in OneTreeMoves :
             /\ visits[m] = T * OneTreeVisits(m)
             /\ wins[m] = T * OneTreeWins(m)

C20_IdenticalWorkers ==
    IterationOnlyReturn =>
        LET T == options.number_of_threads
        IN /\ WorkersIdentical
           /\ OneTreeMoves # {} =>
                 /\ best_move \in OneTreeMoves
                 /\ \A m \in OneTreeMoves :
                       /\ ~ScaledRateLess(T, best_move, m)
                       /\ MoveLess(m, best_move) => ScaledRateLess(T, m, best_move)

\* The move compute_move returns from a single worker that built tree
SingleTreeMove(tree) ==
    LET acc == MergeRoots([visits |-> << >>, wins |-> << >>, games_played |-> 0],
                          << tree >>, 1)
    IN SelectBest(InOrder(DOMAIN acc.visits), 1, acc.visits, acc.wins, NoBest).move

\* The statement of the claim as it was made: identical workers, and the
\* move returned with T workers is the move returned with one.
C20_SameMoveForEveryT ==
    IterationOnlyReturn =>
        /\ WorkersIdentical
        /\ best_move = SingleTreeMove(jobs[1].tree)

\* two workers returned the same tree of DeepIter iterations, and the
\* move returned is not the one a single worker gives
C20_Witness ==
    /\ IterationOnlyReturn
    /\ options.number_of_threads = 2
    /\ jobs[1].tree = jobs[2].tree
    /\ jobs[1].executed = DeepIter
    /\ best_move # SingleTreeMove(jobs[1].tree)
    /\ best_move \in OneTreeMoves

====
